---- MODULE Spec2Model ----
(***************************************************************************)
(* Pilot Journey Log (pilot_journey_log_app_react.jsx): the time           *)
(* arithmetic, the row bookkeeping and the sheet lifecycle of the React    *)
(* component PilotJourneyLogSimpleV2.                                      *)
(*                                                                         *)
(* A JavaScript string is a sequence of one-character strings, so that     *)
(* parsing, formatting, splitting and joining are computed character by    *)
(* character.  The characters used are the digits, ":", ",", "-", " ",     *)
(* the line feed and letters; Number() below is exact on that alphabet.    *)
(***************************************************************************)
EXTENDS Integers, Sequences, FiniteSets, TLC

VARIABLES
  rows,       \* useState rows: the row sequence
  pilot, dz, reg, date, fobStart,   \* header fields
  isClosed,   \* lifecycle flag
  dutyStart, dutyEnd,               \* duty window
  search,     \* quick-search query
  nEdits,     \* number of field edits and imports made so far
  justStarted,  \* the last action was "New Flight"
  did,        \* the handler that ran last, kept while a sample sheet is stepped
  mode,       \* "app": the component; "time" / "load": a pure function under check
  phase,      \* position of the pure-function run
  inTo, inLd, \* arguments of hmToMinutes / calcBlock / calcDuty
  inAll,      \* argument of nextLoadNumber
  outTo, outLd, outBlock, outDuty, outNext,  \* results
  inStored,   \* what local storage holds at startup
  outLoaded,  \* the rows the initial load makes of it
  outAgain    \* the migration of those rows

handlerVars == <<rows, pilot, dz, reg, date, fobStart, isClosed, dutyStart, dutyEnd,
                 search, nEdits>>
appVars == <<rows, pilot, dz, reg, date, fobStart, isClosed, dutyStart, dutyEnd,
             search, nEdits, justStarted, did>>
pureVars == <<mode, phase, inTo, inLd, inAll, outTo, outLd, outBlock, outDuty, outNext,
              inStored, outLoaded, outAgain>>
vars == <<appVars, pureVars>>

(***************************************************************************)
(* Bounds of the model.                                                    *)
(***************************************************************************)
\* addRow is taken while the next load number and the number of load rows
\* stay within MaxLoad
MaxLoad == 2
MaxEdits == 1
MaxList == 2

(***************************************************************************)
(* Text.                                                                   *)
(***************************************************************************)
EmptyText == <<>>
Digits == <<"0", "1", "2", "3", "4", "5", "6", "7", "8", "9">>
IsDigit(c) == \E i \in 1..10 : Digits[i] = c
DigitVal(c) == (CHOOSE i \in 1..10 : Digits[i] = c) - 1

RECURSIVE NatToText(_)
\* Number.prototype.toString of a non-negative integer
NatToText(n) ==
  IF n < 10 THEN <<Digits[n + 1]>>
  ELSE NatToText(n \div 10) \o <<Digits[(n % 10) + 1]>>

\* String(n) of an integer
IntToText(n) == IF n < 0 THEN <<"-">> \o NatToText(0 - n) ELSE NatToText(n)

\* s.padStart(2, "0")
PadStart2(s) == IF Len(s) < 2 THEN <<"0">> \o s ELSE s

RECURSIVE TrimLeft(_)
TrimLeft(s) == IF s # <<>> /\ Head(s) = " " THEN TrimLeft(Tail(s)) ELSE s
RECURSIVE TrimRight(_)
TrimRight(s) ==
  IF s # <<>> /\ s[Len(s)] = " " THEN TrimRight(SubSeq(s, 1, Len(s) - 1)) ELSE s
\* String.prototype.trim
Trim(s) == TrimRight(TrimLeft(s))

RECURSIVE DigitsToNat(_)
DigitsToNat(s) ==
  IF s = <<>> THEN 0
  ELSE 10 * DigitsToNat(SubSeq(s, 1, Len(s) - 1)) + DigitVal(s[Len(s)])
AllDigits(s) == s # <<>> /\ \A i \in 1..Len(s) : IsDigit(s[i])

(***************************************************************************)
(* JavaScript values of the PAX / LDG cells: "", a number, or NaN.         *)
(***************************************************************************)
JsEmpty == [t |-> "str", n |-> 0]
JsNum(k) == [t |-> "num", n |-> k]
JsNaN == [t |-> "nan", n |-> 0]

\* Number(s): whitespace is trimmed, "" is 0, an optionally signed run of
\* digits is its value, every other text of the alphabet is NaN
NumberOf(s) ==
  LET u == Trim(s) IN
  IF u = <<>> THEN JsNum(0)
  ELSE IF AllDigits(u) THEN JsNum(DigitsToNat(u))
  ELSE IF Head(u) = "-" /\ AllDigits(Tail(u)) THEN JsNum(0 - DigitsToNat(Tail(u)))
  ELSE JsNaN

\* Number.isFinite
IsFinite(v) == v.t = "num"

\* String(v) of a cell value
JsToText(v) ==
  IF v.t = "num" THEN IntToText(v.n)
  ELSE IF v.t = "nan" THEN <<"N", "a", "N">>
  ELSE EmptyText

(***************************************************************************)
(* Time arithmetic.                                                        *)
(***************************************************************************)
\* the pattern with \d+ in place of \d{1,2}
MatchesHM_anyHours(hm) ==
  /\ Len(hm) >= 4
  /\ hm[Len(hm) - 2] = ":"
  /\ AllDigits(SubSeq(hm, 1, Len(hm) - 3))
  /\ AllDigits(SubSeq(hm, Len(hm) - 1, Len(hm)))

\* hm.match(/^(\d{1,2}):(\d{2})$/)
MatchesHM(hm) ==
  \/ /\ Len(hm) = 4
     /\ IsDigit(hm[1]) /\ hm[2] = ":" /\ IsDigit(hm[3]) /\ IsDigit(hm[4])
  \/ /\ Len(hm) = 5
     /\ IsDigit(hm[1]) /\ IsDigit(hm[2]) /\ hm[3] = ":"
     /\ IsDigit(hm[4]) /\ IsDigit(hm[5])

hmToMinutes(hm) ==
  IF hm = EmptyText THEN 0
  ELSE IF ~MatchesHM(hm) THEN 0
  ELSE LET colon == Len(hm) - 2
           h == DigitsToNat(SubSeq(hm, 1, colon - 1))
           min == DigitsToNat(SubSeq(hm, colon + 1, Len(hm)))
       IN h * 60 + min

\* mins | 0 leaves an integer of the 32-bit range as it is, and every minute
\* count here (at most 99:99 plus a day) lies in that range
minutesToHM(mins) ==
  LET a == IF mins > 0 THEN mins ELSE 0
      h == a \div 60
      m == a % 60
  IN PadStart2(NatToText(h)) \o <<":">> \o PadStart2(NatToText(m))

\* calcBlock without the midnight rollover
calcBlock_noRollover(to, ld) ==
  IF to = EmptyText \/ ld = EmptyText THEN EmptyText
  ELSE LET start == hmToMinutes(to)
           end == hmToMinutes(ld)
       IN IF start = 0 \/ end = 0 THEN EmptyText ELSE minutesToHM(end - start)

calcBlock(to, ld) ==
  IF to = EmptyText \/ ld = EmptyText THEN EmptyText
  ELSE LET start == hmToMinutes(to)
           end0 == hmToMinutes(ld)
       IN IF start = 0 \/ end0 = 0 THEN EmptyText
          ELSE LET end == IF end0 < start THEN end0 + 24 * 60 ELSE end0
               IN minutesToHM(end - start)

calcDuty(start, end) ==
  IF start = EmptyText \/ end = EmptyText THEN EmptyText
  ELSE LET s == hmToMinutes(start)
           e0 == hmToMinutes(end)
       IN IF s = 0 \/ e0 = 0 THEN EmptyText
          ELSE LET e == IF e0 < s THEN e0 + 24 * 60 ELSE e0
               IN minutesToHM(e - s)

(***************************************************************************)
(* Row model and sequencing.                                               *)
(***************************************************************************)
COLS == <<"Load", "T/O", "L/D", "FLT/T", "BLK/T", "FOB", "F/B", "PAX", "LDG",
          "F/UP", "REMARKS">>
ColSet == {COLS[i] : i \in 1..Len(COLS)}
RowKeys == {"id"} \cup ColSet

FERRY_ID == "ferry-row-fixed"
FerryText == <<"F", "E", "R", "R", "Y">>

\* uid() is taken to return an identifier that no row of the sheet carries
\* and that is not FERRY_ID.  The sheet keeps no trace of the rows deleted
\* from it, so the least index not in use stands for the new identifier.
uid(k) == "uid" \o ToString(k)

\* Array.prototype.filter
Filter(seq, Test(_)) == SelectSeq(seq, Test)

RECURSIVE MaxOf(_)
\* Math.max(...nums) of a non-empty list
MaxOf(nums) ==
  IF Len(nums) = 1 THEN nums[1]
  ELSE LET m == MaxOf(Tail(nums)) IN IF nums[1] > m THEN nums[1] ELSE m

nextLoadNumber(all) ==
  LET kept == Filter(all, LAMBDA x : x["id"] # FERRY_ID)
      parsed == [i \in 1..Len(kept) |-> NumberOf(Trim(kept[i]["Load"]))]
      finite == Filter(parsed, IsFinite)
      nums == [i \in 1..Len(finite) |-> finite[i].n]
  IN IF Len(nums) > 0 THEN MaxOf(nums) + 1 ELSE 1

\* the object literal of addRow / addFerryRow
NewEntry(id, load, fob) ==
  [k \in RowKeys |->
     IF k = "id" THEN id
     ELSE IF k = "Load" THEN load
     ELSE IF k = "FOB" THEN fob
     ELSE IF k \in {"PAX", "LDG"} THEN JsEmpty
     ELSE EmptyText]

\* clearEntry that empties BLK/T with the rest
clearEntry_dropsBlk(row) ==
  [k \in RowKeys |->
     IF k \in {"id", "Load"} THEN row[k]
     ELSE IF k \in {"PAX", "LDG"} THEN JsEmpty
     ELSE EmptyText]

clearEntry(row) ==
  [k \in RowKeys |->
     IF k \in {"id", "Load"} THEN row[k]
     ELSE IF k = "BLK/T" THEN row["BLK/T"]
     ELSE IF k \in {"PAX", "LDG"} THEN JsEmpty
     ELSE EmptyText]

\* Array.prototype.findIndex, 1-based; 0 when no element passes
FindIndex(seq, Test(_)) ==
  IF \E i \in 1..Len(seq) : Test(seq[i])
  THEN CHOOSE i \in 1..Len(seq) : Test(seq[i]) /\ \A j \in 1..(i - 1) : ~Test(seq[j])
  ELSE 0

\* isBlankRow of migrateSavedRows
isBlankRow(r) ==
  /\ r["T/O"] = EmptyText /\ r["L/D"] = EmptyText /\ r["FLT/T"] = EmptyText
  /\ r["BLK/T"] = EmptyText /\ r["FOB"] = EmptyText /\ r["F/B"] = EmptyText
  /\ r["PAX"] = JsEmpty /\ r["LDG"] = JsEmpty
  /\ r["F/UP"] = EmptyText /\ r["REMARKS"] = EmptyText

\* a parsed JSON value: a list of rows, or a value that is no list
JsonArray(items) == [isArray |-> TRUE, items |-> items]
JsonOther == [isArray |-> FALSE, items |-> <<>>]

\* migrateSavedRows that drops a ferry row only when it is blank
migrateSavedRows_keepsFilledFerry(saved) ==
  IF ~saved.isArray THEN <<>>
  ELSE IF Len(saved.items) = 0 THEN <<>>
  ELSE LET withoutFerry ==
             Filter(saved.items, LAMBDA r : r["id"] # FERRY_ID \/ ~isBlankRow(r))
           allBlankNumbered ==
             /\ Len(withoutFerry) > 0
             /\ \A i \in 1..Len(withoutFerry) :
                  LET n == NumberOf(withoutFerry[i]["Load"])
                  IN IsFinite(n) /\ n.n >= 1 /\ n.n <= 19 /\ isBlankRow(withoutFerry[i])
       IN IF allBlankNumbered THEN <<>> ELSE withoutFerry

\* migrateSavedRows of a parsed JSON value
migrateSavedRows(saved) ==
  IF ~saved.isArray THEN <<>>
  ELSE IF Len(saved.items) = 0 THEN <<>>
  ELSE LET withoutFerry == Filter(saved.items, LAMBDA r : r["id"] # FERRY_ID)
           allBlankNumbered ==
             /\ Len(withoutFerry) > 0
             /\ \A i \in 1..Len(withoutFerry) :
                  LET n == NumberOf(withoutFerry[i]["Load"])
                  IN IsFinite(n) /\ n.n >= 1 /\ n.n <= 19 /\ isBlankRow(withoutFerry[i])
       IN IF allBlankNumbered THEN <<>> ELSE withoutFerry

IsFerry(x) == x["id"] = FERRY_ID
IsLoad(x) == x["id"] # FERRY_ID
HasFerry(r) == \E i \in 1..Len(r) : IsFerry(r[i])
RowIds(r) == {r[i]["id"] : i \in 1..Len(r)}
\* uid() returns an identifier no row carries; the least unused index stands
\* for it
FreshIndex(r) == CHOOSE k \in 1..(Len(r) + 1) :
                   uid(k) \notin RowIds(r) /\ \A j \in 1..(k - 1) : uid(j) \in RowIds(r)

(***************************************************************************)
(* CSV text.                                                               *)
(***************************************************************************)
LF == "\n"
CR == "\r"

\* the characters of a column name
ColText(c) ==
  CASE c = "Load" -> <<"L", "o", "a", "d">>
    [] c = "T/O" -> <<"T", "/", "O">>
    [] c = "L/D" -> <<"L", "/", "D">>
    [] c = "FLT/T" -> <<"F", "L", "T", "/", "T">>
    [] c = "BLK/T" -> <<"B", "L", "K", "/", "T">>
    [] c = "FOB" -> <<"F", "O", "B">>
    [] c = "F/B" -> <<"F", "/", "B">>
    [] c = "PAX" -> <<"P", "A", "X">>
    [] c = "LDG" -> <<"L", "D", "G">>
    [] c = "F/UP" -> <<"F", "/", "U", "P">>
    [] c = "REMARKS" -> <<"R", "E", "M", "A", "R", "K", "S">>

RECURSIVE Split(_, _)
\* String.prototype.split on a one-character separator
Split(s, sep) ==
  IF \E i \in 1..Len(s) : s[i] = sep
  THEN LET i == CHOOSE i \in 1..Len(s) : s[i] = sep /\ \A j \in 1..(i - 1) : s[j] # sep
       IN <<SubSeq(s, 1, i - 1)>> \o Split(SubSeq(s, i + 1, Len(s)), sep)
  ELSE <<s>>

\* text.split(/\r?\n/): a carriage return right before a line feed belongs
\* to the separator
SplitLines(s) ==
  LET parts == Split(s, LF)
  IN [i \in 1..Len(parts) |->
        IF i < Len(parts) /\ parts[i] # <<>> /\ parts[i][Len(parts[i])] = CR
        THEN SubSeq(parts[i], 1, Len(parts[i]) - 1)
        ELSE parts[i]]

RECURSIVE Join(_, _)
\* Array.prototype.join of a list of texts
Join(list, sep) ==
  IF list = <<>> THEN EmptyText
  ELSE IF Len(list) = 1 THEN list[1]
  ELSE list[1] \o <<sep>> \o Join(Tail(list), sep)

\* String(row[c] ?? "") of one cell
CellText(row, c) == IF c \in {"PAX", "LDG"} THEN JsToText(row[c]) ELSE row[c]

\* one imported line: the callback of lines.slice(1).map in importCSV;
\* k is the identifier uid() hands out for it
ImportLine(line, k) ==
  LET cells == Split(line, ",")
      v(i) == IF i <= Len(cells) THEN cells[i] ELSE EmptyText
      idx(c) == CHOOSE i \in 1..Len(COLS) : COLS[i] = c
      obj == [c \in RowKeys |->
                IF c = "id" THEN uid(k)
                ELSE IF c \in {"PAX", "LDG"}
                     THEN (IF v(idx(c)) = EmptyText THEN JsEmpty ELSE NumberOf(v(idx(c))))
                     ELSE v(idx(c))]
      span == calcBlock(obj["T/O"], obj["L/D"])
      obj2 == IF obj["FLT/T"] = EmptyText THEN [obj EXCEPT !["FLT/T"] = span] ELSE obj
  IN IF obj2["Load"] = FerryText THEN [obj2 EXCEPT !["id"] = FERRY_ID] ELSE obj2

\* the header check of importCSV
HeaderOk(headerLine) ==
  LET header == Split(headerLine, ",")
  IN \A i \in 1..Len(COLS) :
       (IF i <= Len(header) /\ header[i] # EmptyText THEN Trim(header[i]) ELSE EmptyText)
         = ColText(COLS[i])

\* COLS.join(",")
HeaderLine == Join([i \in 1..Len(COLS) |-> ColText(COLS[i])], ",")

\* the text exportCSV writes
ExportText(r) ==
  HeaderLine \o <<LF>>
    \o Join([i \in 1..Len(r) |-> Join([j \in 1..Len(COLS) |-> CellText(r[i], COLS[j])], ",")], LF)

(***************************************************************************)
(* Inputs: the texts typed into the fields and the files imported.         *)
(***************************************************************************)
T1010 == <<"1", "0", ":", "1", "0">>
T1140 == <<"1", "1", ":", "4", "0">>
T2330 == <<"2", "3", ":", "3", "0">>
T0010 == <<"0", "0", ":", "1", "0">>
T0500 == <<"0", "5", ":", "0", "0">>
T0200 == <<"0", "2", ":", "0", "0">>

TimeInputs == {EmptyText, T1010}
\* what nowHHMM() can return: a zero-padded wall-clock time
NowTexts == {T2330}
HeaderInputs == {EmptyText, <<"X">>}
FobInputs == {EmptyText, <<"5", "0", "0">>, <<"4", "0", "0">>}

\* the columns with an editable cell: every column but Load
EditableCols == ColSet \ {"Load"}

CellInputs(key) ==
  CASE key \in {"T/O", "L/D"} -> TimeInputs
    [] key = "FLT/T" -> {EmptyText, T0500}
    [] key = "BLK/T" -> {EmptyText, T0200}
    [] key = "FOB" -> {EmptyText, <<"3", "0", "0">>}
    [] key = "F/B" -> {EmptyText, <<"5", "0">>}
    [] key = "PAX" -> {EmptyText, <<"4">>}
    [] key = "LDG" -> {EmptyText, <<"1">>}
    [] key = "F/UP" -> {EmptyText, <<"o", "k">>}
    [] key = "REMARKS" -> {EmptyText, <<"a", ",", "b">>}

\* lines of the imported files
LineFerry == FerryText
LineFerryBlk == FerryText \o <<",", ",", ",", ",">> \o T0200
LineOne == <<"1", ",">> \o T1010 \o <<",">> \o T1140
LineTwoFlt == <<"2", ",">> \o T1010 \o <<",">> \o T1140 \o <<",">> \o T0500 \o <<",">> \o T0200
               \o <<",", "3", "0", "0", ",", "5", "0", ",", "4", ",", "1", ",", "o", "k", ",", "a">>
LineNoLoad == <<",">> \o T2330 \o <<",">> \o T0010
LineMinus == <<"-", "5">>
BadHeaderLine == <<"L", "o", "a", "d", ",", "T", "O">>

CsvFile(lines) == Join(lines, LF)

CsvFiles ==
  { CsvFile(<<HeaderLine, LineFerry, LineFerryBlk>>),
    CsvFile(<<HeaderLine, LineOne, LineFerry>>),
    CsvFile(<<HeaderLine, LineTwoFlt>>),
    CsvFile(<<HeaderLine, LineNoLoad, LineMinus>>),
    CsvFile(<<HeaderLine>>),
    CsvFile(<<BadHeaderLine, LineOne>>) }

\* a load row as an earlier session left it in local storage
SavedRow ==
  [k \in RowKeys |->
     CASE k = "id" -> uid(1)
       [] k = "Load" -> <<"1">>
       [] k = "T/O" -> T1010
       [] k = "L/D" -> T1140
       [] k = "FLT/T" -> <<"0", "1", ":", "3", "0">>
       [] k = "BLK/T" -> T0200
       [] k = "FOB" -> <<"3", "0", "0">>
       [] k = "F/B" -> <<"5", "0">>
       [] k = "PAX" -> JsNum(4)
       [] k = "LDG" -> JsNum(1)
       [] k = "F/UP" -> <<"o", "k">>
       [] k = "REMARKS" -> <<"a">>]

\* the row lists found in local storage at startup
SavedSheets == { <<>>, <<SavedRow>> }

(***************************************************************************)
(* The component: state after construction, and its handlers.              *)
(***************************************************************************)
makeInitialRows == <<>>

\* localStorage.getItem(LS_KEY): no item, text that JSON.parse rejects, or
\* the text of a JSON value
NoItem == [kind |-> "none", value |-> JsonOther]
CorruptItem == [kind |-> "corrupt", value |-> JsonOther]
JsonItem(v) == [kind |-> "json", value |-> v]

\* the rows the initial-load effect hands to setRows
loadRows(stored) ==
  IF stored.kind = "json" THEN migrateSavedRows(stored.value)
  ELSE makeInitialRows

PureIdle ==
  /\ phase = "idle"
  /\ inTo = EmptyText /\ inLd = EmptyText /\ inAll = <<>>
  /\ outTo = 0 /\ outLd = 0 /\ outBlock = EmptyText /\ outDuty = EmptyText /\ outNext = 0
  /\ inStored = NoItem /\ outLoaded = <<>> /\ outAgain = <<>>

Init ==
  /\ mode = "app"
  /\ \E saved \in SavedSheets :
       rows = migrateSavedRows(JsonArray(saved))
  /\ pilot = EmptyText /\ dz = EmptyText /\ reg = EmptyText /\ date = EmptyText
  /\ fobStart = EmptyText
  /\ isClosed = FALSE
  /\ dutyStart = EmptyText /\ dutyEnd = EmptyText
  /\ search = EmptyText
  /\ nEdits = 0 /\ justStarted = FALSE /\ did = ""
  /\ PureIdle

header == <<pilot, dz, reg, date, fobStart>>

\* the updater of addRow; k is the identifier uid() hands out
addRowTo(r, k) ==
  LET idxFerry == FindIndex(r, IsFerry)
      hasLoads == \E i \in 1..Len(r) : IsLoad(r[i])
      newRow == NewEntry(uid(k), IntToText(nextLoadNumber(r)),
                         IF hasLoads THEN EmptyText ELSE fobStart)
  IN IF idxFerry >= 1
     THEN SubSeq(r, 1, idxFerry) \o <<newRow>> \o SubSeq(r, idxFerry + 1, Len(r))
     ELSE r \o <<newRow>>

AddRow ==
  /\ mode = "app"
  /\ nextLoadNumber(rows) <= MaxLoad /\ Len(Filter(rows, IsLoad)) < MaxLoad
  /\ IF isClosed THEN UNCHANGED rows ELSE rows' = addRowTo(rows, FreshIndex(rows))
  /\ UNCHANGED <<pilot, dz, reg, date, fobStart, isClosed, dutyStart, dutyEnd, search,
                 nEdits, pureVars>>

\* the updater of addFerryRow without the check for a ferry row
addFerryRowTo_always(r) ==
  <<NewEntry(FERRY_ID, FerryText, fobStart)>> \o r

\* the updater of addFerryRow
addFerryRowTo(r) ==
  IF HasFerry(r) THEN r
  ELSE <<NewEntry(FERRY_ID, FerryText, fobStart)>> \o r

AddFerryRow ==
  /\ mode = "app"
  /\ IF isClosed THEN UNCHANGED rows ELSE rows' = addFerryRowTo(rows)
  /\ UNCHANGED <<pilot, dz, reg, date, fobStart, isClosed, dutyStart, dutyEnd, search,
                 nEdits, pureVars>>

\* the callback of prev.map in updateRow
updateEntry(row, id, key, value) ==
  IF row["id"] # id THEN row
  ELSE LET next == [row EXCEPT ![key] =
                      IF key \in {"PAX", "LDG"}
                      THEN (IF value = EmptyText THEN JsEmpty ELSE NumberOf(value))
                      ELSE value]
       IN IF key \in {"T/O", "L/D"} /\ (next["T/O"] # EmptyText \/ next["L/D"] # EmptyText)
          THEN [next EXCEPT !["FLT/T"] = calcBlock(next["T/O"], next["L/D"])]
          ELSE next

updateRow(id, key, value) ==
  /\ mode = "app"
  /\ IF isClosed THEN UNCHANGED <<rows, nEdits>>
     ELSE /\ nEdits < MaxEdits
          /\ rows' = [i \in 1..Len(rows) |-> updateEntry(rows[i], id, key, value)]
          /\ nEdits' = nEdits + 1
  /\ UNCHANGED <<pilot, dz, reg, date, fobStart, isClosed, dutyStart, dutyEnd, search,
                 pureVars>>

\* typing into the cell of column key of some row: onChange fires when the
\* text typed differs from the text shown
UpdateRowKey(key) ==
  \E i \in 1..Len(rows) :
    \E value \in CellInputs(key) :
      /\ value # CellText(rows[i], key)
      /\ updateRow(rows[i]["id"], key, value)

UpdateRow == \E key \in EditableCols : UpdateRowKey(key)

setNow(id, key) ==
  IF isClosed THEN UNCHANGED <<handlerVars, pureVars>>
  ELSE \E now \in NowTexts : updateRow(id, key, now)

SetNow == \E id \in RowIds(rows), key \in {"T/O", "L/D"} : mode = "app" /\ setNow(id, key)

deleteRow(id) ==
  /\ mode = "app"
  /\ IF isClosed THEN UNCHANGED rows
     ELSE rows' = Filter(rows, LAMBDA x : x["id"] # id)
  /\ UNCHANGED <<pilot, dz, reg, date, fobStart, isClosed, dutyStart, dutyEnd, search,
                 nEdits, pureVars>>

DeleteRow == \E id \in RowIds(rows) : deleteRow(id)

clearRow(id) ==
  /\ mode = "app"
  /\ IF isClosed THEN UNCHANGED rows
     ELSE rows' = [i \in 1..Len(rows) |->
                     IF rows[i]["id"] = id THEN clearEntry(rows[i]) ELSE rows[i]]
  /\ UNCHANGED <<pilot, dz, reg, date, fobStart, isClosed, dutyStart, dutyEnd, search,
                 nEdits, pureVars>>

ClearRow == \E id \in RowIds(rows) : clearRow(id)

\* reader.onload of importCSV; the rows it hands to setRows, or the current
\* rows when it returns early
importedRows(text, r, k) ==
  LET lines == Filter(SplitLines(text), LAMBDA l : l # EmptyText)
  IN IF Len(lines) < 2 THEN r
     ELSE IF ~HeaderOk(lines[1]) THEN r
     ELSE [i \in 1..(Len(lines) - 1) |-> ImportLine(lines[i + 1], k + i)]

importCSV(text) ==
  /\ mode = "app"
  /\ nEdits < MaxEdits
  /\ rows' = importedRows(text, rows, 0)
  /\ nEdits' = nEdits + 1
  /\ UNCHANGED <<pilot, dz, reg, date, fobStart, isClosed, dutyStart, dutyEnd, search,
                 pureVars>>

ImportCSV == \E text \in CsvFiles : importCSV(text)

\* the "Close Flight" button is rendered only while the sheet is open
closeFlight ==
  /\ mode = "app"
  /\ ~isClosed
  /\ isClosed' = TRUE
  /\ UNCHANGED <<rows, pilot, dz, reg, date, fobStart, dutyStart, dutyEnd, search,
                 nEdits, pureVars>>

\* newFlight that reopens the sheet and keeps its rows
newFlight_keepsRows ==
  /\ mode = "app"
  /\ isClosed
  /\ isClosed' = FALSE
  /\ UNCHANGED <<rows, pilot, dz, reg, date, fobStart, dutyStart, dutyEnd, search,
                 nEdits, pureVars>>

\* the "New Flight" button is rendered only while the sheet is closed
newFlight ==
  /\ mode = "app"
  /\ isClosed
  /\ rows' = makeInitialRows
  /\ isClosed' = FALSE
  /\ UNCHANGED <<pilot, dz, reg, date, fobStart, dutyStart, dutyEnd, search,
                 nEdits, pureVars>>

\* the PILOT, DZ, REG and DATE inputs are disabled while the sheet is closed
setPilot(v) ==
  /\ mode = "app" /\ ~isClosed /\ nEdits < MaxEdits
  /\ v # pilot
  /\ pilot' = v /\ nEdits' = nEdits + 1
  /\ UNCHANGED <<rows, dz, reg, date, fobStart, isClosed, dutyStart, dutyEnd, search,
                 pureVars>>

setDz(v) ==
  /\ mode = "app" /\ ~isClosed /\ nEdits < MaxEdits
  /\ v # dz
  /\ dz' = v /\ nEdits' = nEdits + 1
  /\ UNCHANGED <<rows, pilot, reg, date, fobStart, isClosed, dutyStart, dutyEnd, search,
                 pureVars>>

setReg(v) ==
  /\ mode = "app" /\ ~isClosed /\ nEdits < MaxEdits
  /\ v # reg
  /\ reg' = v /\ nEdits' = nEdits + 1
  /\ UNCHANGED <<rows, pilot, dz, date, fobStart, isClosed, dutyStart, dutyEnd, search,
                 pureVars>>

setDate(v) ==
  /\ mode = "app" /\ ~isClosed /\ nEdits < MaxEdits
  /\ v # date
  /\ date' = v /\ nEdits' = nEdits + 1
  /\ UNCHANGED <<rows, pilot, dz, reg, fobStart, isClosed, dutyStart, dutyEnd, search,
                 pureVars>>

SetHeader == \E v \in HeaderInputs : setPilot(v) \/ setDz(v) \/ setReg(v) \/ setDate(v)

\* the updater of the effect on [fobStart]: the forward seed
seedFob(prev, fob) ==
  LET loads == Filter(prev, IsLoad)
      hasLoads == Len(loads) > 0
      idxFerry == FindIndex(prev, IsFerry)
      targetId == IF hasLoads THEN loads[1]["id"]
                  ELSE IF idxFerry >= 1 THEN prev[idxFerry]["id"] ELSE "null"
  IN IF targetId = "null" THEN prev
     ELSE [i \in 1..Len(prev) |->
             IF prev[i]["id"] = targetId /\ prev[i]["FOB"] = EmptyText
             THEN [prev[i] EXCEPT !["FOB"] = fob]
             ELSE prev[i]]

\* the FOB (Start) input (never disabled) and the effect its change triggers
setFobStart(v) ==
  /\ mode = "app" /\ nEdits < MaxEdits
  /\ v # fobStart
  /\ fobStart' = v
  /\ rows' = IF v = EmptyText THEN rows ELSE seedFob(rows, v)
  /\ nEdits' = nEdits + 1
  /\ UNCHANGED <<pilot, dz, reg, date, isClosed, dutyStart, dutyEnd, search,
                 pureVars>>

SetFobStart == \E v \in FobInputs : setFobStart(v)

\* the DUTY START / DUTY END inputs (never disabled)
setDutyStart(v) ==
  /\ mode = "app" /\ nEdits < MaxEdits
  /\ v # dutyStart
  /\ dutyStart' = v /\ nEdits' = nEdits + 1
  /\ UNCHANGED <<rows, pilot, dz, reg, date, fobStart, isClosed, dutyEnd, search,
                 pureVars>>

setDutyEnd(v) ==
  /\ mode = "app" /\ nEdits < MaxEdits
  /\ v # dutyEnd
  /\ dutyEnd' = v /\ nEdits' = nEdits + 1
  /\ UNCHANGED <<rows, pilot, dz, reg, date, fobStart, isClosed, dutyStart, search,
                 pureVars>>

SetDuty == \E v \in {EmptyText, T2330} : setDutyStart(v) \/ setDutyEnd(v)

pilotDuty == calcDuty(dutyStart, dutyEnd)

Next ==
  \/ AddRow /\ justStarted' = FALSE /\ UNCHANGED did
  \/ AddFerryRow /\ justStarted' = FALSE /\ UNCHANGED did
  \/ UpdateRow /\ justStarted' = FALSE /\ UNCHANGED did
  \/ SetNow /\ justStarted' = FALSE /\ UNCHANGED did
  \/ DeleteRow /\ justStarted' = FALSE /\ UNCHANGED did
  \/ ClearRow /\ justStarted' = FALSE /\ UNCHANGED did
  \/ ImportCSV /\ justStarted' = FALSE /\ UNCHANGED did
  \/ closeFlight /\ justStarted' = FALSE /\ UNCHANGED did
  \/ newFlight /\ justStarted' = TRUE /\ UNCHANGED did
  \/ SetHeader /\ justStarted' = FALSE /\ UNCHANGED did
  \/ SetFobStart /\ justStarted' = FALSE /\ UNCHANGED did
  \/ SetDuty /\ justStarted' = FALSE /\ UNCHANGED did

Spec == Init /\ [][Next]_vars

(***************************************************************************)
(* The component on a sheet that an import or an earlier session has left: *)
(* the handlers whose effect depends on what the sheet holds are stepped   *)
(* from a set of sample sheets, and did names the handler that ran last.   *)
(***************************************************************************)
\* the quick-search input is disabled while the sheet is closed
setSearch(v) ==
  /\ mode = "app" /\ ~isClosed
  /\ v # search
  /\ search' = v
  /\ UNCHANGED <<rows, pilot, dz, reg, date, fobStart, isClosed, dutyStart, dutyEnd,
                 nEdits, pureVars>>

SearchInputs == {EmptyText, <<"F">>, <<"3", "0", "0">>}

SetSearch == \E v \in SearchInputs : setSearch(v)

UpperCase == <<"A", "B", "C", "D", "E", "F", "G", "H", "I", "J", "K", "L", "M",
              "N", "O", "P", "Q", "R", "S", "T", "U", "V", "W", "X", "Y", "Z">>
LowerCase == <<"a", "b", "c", "d", "e", "f", "g", "h", "i", "j", "k", "l", "m",
              "n", "o", "p", "q", "r", "s", "t", "u", "v", "w", "x", "y", "z">>

\* String.prototype.toLowerCase
ToLowerCase(s) ==
  [i \in 1..Len(s) |->
     IF \E k \in 1..26 : UpperCase[k] = s[i]
     THEN LowerCase[CHOOSE k \in 1..26 : UpperCase[k] = s[i]]
     ELSE s[i]]

\* String.prototype.includes
Includes(s, q) ==
  \E k \in 0..(Len(s) - Len(q)) : SubSeq(s, k + 1, k + Len(q)) = q

\* the rows the table shows
filtered ==
  LET q == ToLowerCase(Trim(search))
  IN IF q = EmptyText THEN rows
     ELSE Filter(rows, LAMBDA r :
            \E i \in 1..Len(COLS) : Includes(ToLowerCase(CellText(r, COLS[i])), q))

\* typeof v === "number": NaN is a number too
TypeofNumber(v) == v.t \in {"num", "nan"}

\* a + b of two numbers
JsAdd(a, b) == IF a.t = "nan" \/ b.t = "nan" THEN JsNaN ELSE JsNum(a.n + b.n)

RECURSIVE ReduceCount(_, _, _)
\* list.reduce((a, r) => a + (typeof r[key] === "number" ? r[key] : 0), acc)
ReduceCount(list, key, acc) ==
  IF list = <<>> THEN acc
  ELSE ReduceCount(Tail(list), key,
                   JsAdd(acc, IF TypeofNumber(list[1][key]) THEN list[1][key] ELSE JsNum(0)))

RECURSIVE ReduceMinutes(_, _)
\* list.reduce((a, r) => a + hmToMinutes(String(r["FLT/T"])), acc)
ReduceMinutes(list, acc) ==
  IF list = <<>> THEN acc
  ELSE ReduceMinutes(Tail(list), acc + hmToMinutes(list[1]["FLT/T"]))

\* filtered.find(ferry), as the list of what it finds, and otherRows
ferryRow ==
  LET i == FindIndex(filtered, IsFerry) IN IF i = 0 THEN <<>> ELSE <<filtered[i]>>
otherRows == Filter(filtered, IsLoad)

totals ==
  [pax |-> JsAdd(ReduceCount(otherRows, "PAX", JsNum(0)), ReduceCount(ferryRow, "PAX", JsNum(0))),
   ldg |-> JsAdd(ReduceCount(otherRows, "LDG", JsNum(0)), ReduceCount(ferryRow, "LDG", JsNum(0))),
   flt |-> minutesToHM(ReduceMinutes(ferryRow, 0) + ReduceMinutes(otherRows, 0)),
   flights |-> Len(filtered)]

\* lines of the files that left the sample sheets
LineFerryTo == FerryText \o <<",">> \o T1010
LineFerryFull == FerryText \o <<",", ",", ",", ",">> \o T0200
                  \o <<",", "3", "0", "0", ",", "5", "0", ",", "2", ",", "1">>

SheetFiles ==
  { CsvFile(<<HeaderLine, LineFerryTo, LineFerryFull>>),
    CsvFile(<<HeaderLine, LineOne, LineFerry>>),
    CsvFile(<<HeaderLine, LineTwoFlt, LineOne>>) }

\* a second persisted load row, with a comma in its remarks
SavedRowComma ==
  [SavedRow EXCEPT !["id"] = uid(2), !["Load"] = <<"2">>,
                   !["REMARKS"] = <<"a", ",", "b">>]

SheetSaved == { <<>>, <<SavedRow, SavedRowComma>> }

\* the sample sheets: what importCSV makes of each file on a fresh sheet, and
\* what the startup migration makes of each persisted list
SheetSheets ==
  {importedRows(f, <<>>, 0) : f \in SheetFiles}
    \cup {migrateSavedRows(JsonArray(saved)) : saved \in SheetSaved}

SheetInit ==
  /\ mode = "app"
  /\ rows \in SheetSheets
  /\ pilot = EmptyText /\ dz = EmptyText /\ reg = EmptyText /\ date = EmptyText
  /\ fobStart \in {EmptyText, <<"5", "0", "0">>}
  /\ isClosed = FALSE
  /\ dutyStart = EmptyText /\ dutyEnd = EmptyText
  /\ search = EmptyText
  /\ nEdits = 0 /\ justStarted = FALSE /\ did = ""
  /\ PureIdle

\* the file exportCSV has just written is chosen for import
ReimportCSV == importCSV(ExportText(rows))

\* header lines of the files tried against the header check
HeaderPadded == <<" ">> \o HeaderLine
HeaderExtra == HeaderLine \o <<",", "X">>
HeaderShort == Join([i \in 1..(Len(COLS) - 1) |-> ColText(COLS[i])], ",")
\* one file per header line, each with a data line of its own
HeaderFiles ==
  { CsvFile(<<HeaderLine, <<"-", "5">> >>),
    CsvFile(<<BadHeaderLine, <<"-", "6">> >>),
    CsvFile(<<HeaderPadded, <<"-", "7">> >>),
    CsvFile(<<HeaderExtra, <<"-", "8">> >>),
    CsvFile(<<HeaderShort, <<"-", "9">> >>) }

ImportHeaderFile == \E text \in HeaderFiles : importCSV(text)

SheetNext ==
  \/ ClearRow /\ did' = "clearRow" /\ justStarted' = FALSE
  \/ AddFerryRow /\ did' = "addFerryRow" /\ justStarted' = FALSE
  \/ SetFobStart /\ did' = "setFobStart" /\ justStarted' = FALSE
  \/ SetSearch /\ did' = "setSearch" /\ justStarted' = FALSE
  \/ closeFlight /\ did' = "closeFlight" /\ justStarted' = FALSE
  \/ ReimportCSV /\ did' = "exportCSV, importCSV" /\ justStarted' = FALSE
  \/ ImportHeaderFile /\ did' = "importCSV" /\ justStarted' = FALSE

SheetSpec == SheetInit /\ [][SheetNext]_vars

(***************************************************************************)
(* The pure functions on their own: the arguments are drawn at the start   *)
(* and the functions are applied to them one after the other.              *)
(***************************************************************************)
ClockHours == {0, 1, 10, 11, 23}
ClockMins == {0, 10, 30, 40}

\* "HH:MM" and "H:MM" of an hour and a minute
LongClock(h, m) ==
  <<Digits[(h \div 10) + 1], Digits[(h % 10) + 1], ":",
    Digits[(m \div 10) + 1], Digits[(m % 10) + 1]>>
ShortClock(h, m) ==
  <<Digits[h + 1], ":", Digits[(m \div 10) + 1], Digits[(m % 10) + 1]>>

ValidClockTexts ==
  {LongClock(h, m) : h \in ClockHours, m \in ClockMins}
    \cup {ShortClock(h, m) : h \in {x \in ClockHours : x < 10}, m \in ClockMins}

\* texts of the pattern that are no time of day
OddClockTexts == { <<"3", "0", ":", "0", "0">>, <<"0", "1", ":", "7", "5">> }

\* texts that do not have the pattern
BadClockTexts ==
  { EmptyText,
    <<"x", "x">>,
    <<"1", ":", "5">>,
    <<"1", "2", "3", ":", "0", "0">>,
    <<"1", "2", ":", "3", "4", "5">>,
    <<"1", "2", "3", "0">>,
    <<":", "3", "0">>,
    <<"1", "2", ":">>,
    <<" ", "1", "0", ":", "1", "0">>,
    <<"1", "0", ":", "1", "0", " ">>,
    <<"1", "0", "-", "1", "0">>,
    <<"a", "0", ":", "0", "0">>,
    <<"1", "0", ":", "x", "0">> }

ClockArgs == ValidClockTexts \cup OddClockTexts \cup BadClockTexts

\* the entries of the lists handed to nextLoadNumber
LoadLabels ==
  { EmptyText, <<"1">>, <<"2">>, <<"7">>, <<" ", "3", " ">>, <<"-", "5">>, <<"1", "2">>,
    FerryText, <<"2", "x">> }
LoadEntries == {[id |-> i, Load |-> l] : i \in {"x", FERRY_ID}, l \in LoadLabels}
LoadLists == UNION {[1..n -> LoadEntries] : n \in 0..MaxList}

AppBlank ==
  /\ rows = <<>>
  /\ pilot = EmptyText /\ dz = EmptyText /\ reg = EmptyText /\ date = EmptyText
  /\ fobStart = EmptyText
  /\ isClosed = FALSE
  /\ dutyStart = EmptyText /\ dutyEnd = EmptyText
  /\ search = EmptyText
  /\ nEdits = 0 /\ justStarted = FALSE /\ did = ""

\* the rows of the lists found in local storage, by what they hold
StoredKinds ==
  {"ferryBlank", "ferryFilled", "blank1", "blank19", "blank20", "blankX", "blkOnly",
   "filled"}

\* the row of a kind at position i of a stored list
StoredRow(kind, i) ==
  CASE kind = "ferryBlank" -> NewEntry(FERRY_ID, FerryText, EmptyText)
    [] kind = "ferryFilled" ->
         [NewEntry(FERRY_ID, FerryText, <<"3", "0", "0">>) EXCEPT !["T/O"] = T1010]
    [] kind = "blank1" -> NewEntry(uid(i), <<"1">>, EmptyText)
    [] kind = "blank19" -> NewEntry(uid(i), <<"1", "9">>, EmptyText)
    [] kind = "blank20" -> NewEntry(uid(i), <<"2", "0">>, EmptyText)
    [] kind = "blankX" -> NewEntry(uid(i), <<"2", "x">>, EmptyText)
    [] kind = "blkOnly" -> [NewEntry(uid(i), <<"2">>, EmptyText) EXCEPT !["BLK/T"] = T0200]
    [] kind = "filled" -> [SavedRow EXCEPT !["id"] = uid(i)]

StoredLists ==
  {[i \in 1..Len(kinds) |-> StoredRow(kinds[i], i)] :
     kinds \in UNION {[1..n -> StoredKinds] : n \in 0..MaxList}}

StoredItems ==
  {NoItem, CorruptItem, JsonItem(JsonOther)}
    \cup {JsonItem(JsonArray(list)) : list \in StoredLists}

PureInit ==
  /\ AppBlank
  /\ phase = "input"
  /\ outTo = 0 /\ outLd = 0 /\ outBlock = EmptyText /\ outDuty = EmptyText /\ outNext = 0
  /\ outLoaded = <<>> /\ outAgain = <<>>
  /\ \/ /\ mode = "time"
        /\ inTo \in ClockArgs /\ inLd \in ClockArgs
        /\ inAll = <<>> /\ inStored = NoItem
     \/ /\ mode = "load"
        /\ inAll \in LoadLists
        /\ inTo = EmptyText /\ inLd = EmptyText /\ inStored = NoItem
     \/ /\ mode = "migrate"
        /\ inStored \in StoredItems
        /\ inTo = EmptyText /\ inLd = EmptyText /\ inAll = <<>>

RunHmToMinutes ==
  /\ mode = "time" /\ phase = "input"
  /\ outTo' = hmToMinutes(inTo)
  /\ outLd' = hmToMinutes(inLd)
  /\ phase' = "parsed"
  /\ UNCHANGED <<appVars, mode, inTo, inLd, inAll, outBlock, outDuty, outNext,
                 inStored, outLoaded, outAgain>>

RunCalcBlock ==
  /\ mode = "time" /\ phase = "parsed"
  /\ outBlock' = calcBlock(inTo, inLd)
  /\ phase' = "block"
  /\ UNCHANGED <<appVars, mode, inTo, inLd, inAll, outTo, outLd, outDuty, outNext,
                 inStored, outLoaded, outAgain>>

RunCalcDuty ==
  /\ mode = "time" /\ phase = "block"
  /\ outDuty' = calcDuty(inTo, inLd)
  /\ phase' = "done"
  /\ UNCHANGED <<appVars, mode, inTo, inLd, inAll, outTo, outLd, outBlock, outNext,
                 inStored, outLoaded, outAgain>>

RunNextLoadNumber ==
  /\ mode = "load" /\ phase = "input"
  /\ outNext' = nextLoadNumber(inAll)
  /\ phase' = "done"
  /\ UNCHANGED <<appVars, mode, inTo, inLd, inAll, outTo, outLd, outBlock, outDuty,
                 inStored, outLoaded, outAgain>>

\* the initial-load effect on what local storage holds
RunLoadRows ==
  /\ mode = "migrate" /\ phase = "input"
  /\ outLoaded' = loadRows(inStored)
  /\ phase' = "loaded"
  /\ UNCHANGED <<appVars, mode, inTo, inLd, inAll, outTo, outLd, outBlock, outDuty, outNext,
                 inStored, outAgain>>

\* the migration applied to the rows it gave
RunMigrateAgain ==
  /\ mode = "migrate" /\ phase = "loaded"
  /\ outAgain' = migrateSavedRows(JsonArray(outLoaded))
  /\ phase' = "done"
  /\ UNCHANGED <<appVars, mode, inTo, inLd, inAll, outTo, outLd, outBlock, outDuty, outNext,
                 inStored, outLoaded>>

PureNext ==
  \/ RunHmToMinutes
  \/ RunCalcBlock
  \/ RunCalcDuty
  \/ RunNextLoadNumber
  \/ RunLoadRows
  \/ RunMigrateAgain

PureSpec == PureInit /\ [][PureNext]_vars

(***************************************************************************)
(* Properties of the sheet lifecycle and of the row sequence.              *)
(***************************************************************************)
FerryCount(r) == Cardinality({i \in 1..Len(r) : IsFerry(r[i])})

\* C1: while the sheet is closed, add load row, add ferry row, update field,
\* set-to-now, delete row, clear row and every header edit other than the
\* duty window (the starting fuel and its seeding included) leave the row
\* sequence and the header fields unchanged.
C1_ClosedSheetFrozen ==
  [][(isClosed /\ (AddRow \/ AddFerryRow \/ UpdateRow \/ SetNow \/ DeleteRow \/ ClearRow
                     \/ SetHeader \/ SetFobStart))
       => (rows' = rows /\ header' = header)]_vars

\* C2: every step from Closed to Open is a "start new flight" step, and
\* after "start new flight" the sheet is open, the row sequence is empty and
\* pilot, drop-zone, registration, date and starting fuel are what they were.
C2_NewFlightReopens ==
  [][/\ (isClosed /\ ~isClosed') => newFlight
     /\ justStarted' => (isClosed /\ ~isClosed' /\ rows' = <<>> /\ header' = header)]_vars

\* a sheet with a header value, reopened by "start new flight"
C2_Witness ==
  /\ justStarted /\ ~isClosed /\ rows = <<>>
  /\ header # <<EmptyText, EmptyText, EmptyText, EmptyText, EmptyText>>

\* C3: at most one row carries the reserved ferry identifier.
C3_AtMostOneFerry == FerryCount(rows) <= 1

\* C4: a row with the ferry identifier, when present, is the first element
\* of the row sequence.
C4_FerryFirst == HasFerry(rows) => IsFerry(rows[1])

\* C5: every row's FLT/T is elapsed(T/O, L/D) of that row.
C5_FlightTimeDerived ==
  \A i \in 1..Len(rows) :
    rows[i]["FLT/T"] = calcBlock(rows[i]["T/O"], rows[i]["L/D"])

\* the load numbers of the non-ferry rows, in sequence order
LoadNumbers(r) ==
  LET loads == Filter(r, IsLoad)
  IN [i \in 1..Len(loads) |-> NumberOf(loads[i]["Load"])]

\* C6: after any interleaving of add load row, add ferry row, delete and
\* clear (no edit and no import made), the non-ferry rows' load numbers are
\* strictly increasing along the row sequence.
C6_LoadsIncreasing ==
  nEdits = 0 =>
    LET nums == LoadNumbers(rows)
    IN \A i \in 1..Len(nums) : \A j \in 1..Len(nums) :
         i < j => (IsFinite(nums[i]) /\ IsFinite(nums[j]) /\ nums[i].n < nums[j].n)

\* the BLK/T values of the rows carrying an identifier
BlkOf(r, id) == {r[i]["BLK/T"] : i \in {j \in 1..Len(r) : r[j]["id"] = id}}

\* C10: updating a field other than BLK/T, set-to-now, clear row, add load
\* row, add ferry row, delete row and the starting-fuel seeding leave the
\* BLK/T of every row that exists before and after the step as it was.
C10_BlockTimeManual ==
  [][\/ rows' = rows
     \/ \A id \in RowIds(rows) \cap RowIds(rows') : BlkOf(rows', id) = BlkOf(rows, id)
     \/ ~(AddRow \/ AddFerryRow \/ (\E key \in EditableCols \ {"BLK/T"} : UpdateRowKey(key))
            \/ SetNow \/ ClearRow \/ DeleteRow \/ SetFobStart)]_vars

\* a row whose takeoff was set to now and whose flight time was recomputed,
\* with its block time still as entered
C10_Witness ==
  \E i \in 1..Len(rows) :
    /\ rows[i]["BLK/T"] = T0200
    /\ rows[i]["T/O"] = T2330
    /\ rows[i]["L/D"] = T1140
    /\ rows[i]["FLT/T"] = <<"1", "2", ":", "1", "0">>

(***************************************************************************)
(* Properties of the handlers on a sample sheet.                           *)
(***************************************************************************)
\* a row with everything but id, Load and BLK/T emptied
ClearedRow(row) ==
  [k \in RowKeys |->
     IF k \in {"id", "Load", "BLK/T"} THEN row[k]
     ELSE IF k \in {"PAX", "LDG"} THEN JsEmpty ELSE EmptyText]

\* C11: clearing a row of an open sheet keeps the row at its position with
\* its id, Load and BLK/T, empties its nine other fields and leaves every
\* other row of the sequence as it was.
C11_ClearRowFrame ==
  [][\A id \in RowIds(rows) :
       (~isClosed /\ clearRow(id)) =>
         \E i \in 1..Len(rows) :
           /\ rows[i]["id"] = id
           /\ rows' = [rows EXCEPT ![i] = ClearedRow(rows[i])]]_vars

\* C11 on the sheets where every row has an identifier of its own
C11_ClearRowFrameUniqueIds ==
  [][\A id \in RowIds(rows) :
       (~isClosed /\ clearRow(id) /\ Cardinality(RowIds(rows)) = Len(rows)) =>
         \E i \in 1..Len(rows) :
           /\ rows[i]["id"] = id
           /\ rows' = [rows EXCEPT ![i] = ClearedRow(rows[i])]]_vars

\* the position of the row the forward seed is meant for: the first row
\* without the ferry identifier, else the ferry row, else none (0)
SeedTarget(r) ==
  IF \E i \in 1..Len(r) : IsLoad(r[i]) THEN FindIndex(r, IsLoad)
  ELSE FindIndex(r, IsFerry)

SeedFrame ==
  /\ Len(rows') = Len(rows)
  /\ \A i \in 1..Len(rows) :
       /\ rows[i]["FOB"] # EmptyText => rows'[i] = rows[i]
       /\ rows'[i] # rows[i] =>
            /\ i = SeedTarget(rows)
            /\ rows'[i] = [rows[i] EXCEPT !["FOB"] = fobStart']
  /\ (SeedTarget(rows) = 0 \/ rows[SeedTarget(rows)]["FOB"] # EmptyText) => rows' = rows

\* C12: a change of the starting fuel changes no FOB that is non-empty; it
\* changes at most the target row (the first load row, else the ferry row),
\* only its FOB and only when that FOB is empty, so a change made once the
\* target is populated leaves all rows as they were.
C12_SeedOnlyEmptyTarget ==
  [][fobStart' # fobStart => SeedFrame]_vars

\* C12 on the sheets where every row has an identifier of its own
C12_SeedOnlyEmptyTargetUniqueIds ==
  [][(fobStart' # fobStart /\ Cardinality(RowIds(rows)) = Len(rows)) => SeedFrame]_vars

\* the same rows, column by column, with the FERRY rows on the ferry identifier
SameContent(before, after) ==
  /\ Len(after) = Len(before)
  /\ \A i \in 1..Len(before) :
       /\ \A c \in ColSet : after[i][c] = before[i][c]
       /\ before[i]["Load"] = FerryText => after[i]["id"] = FERRY_ID

\* C13: importing the text that the export of a row set gives yields rows
\* of the same number and order with the same eleven column values, the
\* rows labelled FERRY on the ferry identifier; the empty row set and cells
\* with a comma included.
C13_CsvRoundTrip ==
  [][ReimportCSV => SameContent(rows, rows')]_vars

\* some cell of the sheet holds a comma
HasComma(r) ==
  \E i \in 1..Len(r) : \E c \in ColSet :
    \E j \in 1..Len(CellText(r[i], c)) : CellText(r[i], c)[j] = ","

\* C13 on the sheets without a comma in any cell
C13_CsvRoundTripNoComma ==
  [][(ReimportCSV /\ ~HasComma(rows)) => SameContent(rows, rows')]_vars

\* the first line of a file
FirstLine(text) == Split(text, LF)[1]

\* C14: import takes a file only when its first line is exactly the
\* eleven-column header; with any other first line (a wrong, missing, extra
\* or whitespace-padded column) the rows and the header fields stay as they
\* were.
C14_HeaderExact ==
  [][\A text \in HeaderFiles :
       (importCSV(text) /\ FirstLine(text) # HeaderLine)
         => (rows' = rows /\ header' = header)]_vars

\* C14 for the first lines that differ from the header in one of its eleven
\* columns after trimming
C14_HeaderTrimmedColumns ==
  [][\A text \in HeaderFiles :
       (importCSV(text) /\ FirstLine(text) \notin {HeaderLine, HeaderPadded, HeaderExtra})
         => (rows' = rows /\ header' = header)]_vars

\* a row is visible when some column value, lower-cased, contains the query
Visible(r) ==
  LET q == ToLowerCase(Trim(search))
  IN \E c \in ColSet : Includes(ToLowerCase(CellText(r, c)), q)
VisibleIndexes == {i \in 1..Len(rows) : Visible(rows[i])}

RECURSIVE SumOver(_, _)
SumOver(S, f) ==
  IF S = {} THEN 0
  ELSE LET i == CHOOSE x \in S : TRUE IN f[i] + SumOver(S \ {i}, f)

TotalsOverVisible ==
  LET paxOf == [i \in 1..Len(rows) |-> IF rows[i]["PAX"].t = "num" THEN rows[i]["PAX"].n ELSE 0]
      ldgOf == [i \in 1..Len(rows) |-> IF rows[i]["LDG"].t = "num" THEN rows[i]["LDG"].n ELSE 0]
      minsOf == [i \in 1..Len(rows) |-> hmToMinutes(rows[i]["FLT/T"])]
      mins == SumOver(VisibleIndexes, minsOf)
  IN /\ totals.flights = Cardinality(VisibleIndexes)
     /\ totals.pax = JsNum(SumOver(VisibleIndexes, paxOf))
     /\ totals.ldg = JsNum(SumOver(VisibleIndexes, ldgOf))
     /\ totals.flt = LongClock(mins \div 60, mins % 60)

\* C15: for every sheet and query the totals are those of the visible rows:
\* flights their number (ferry included), pax and ldg the sums of their
\* numeric PAX and LDG (empty counts 0), flt the HH:MM of the sum of their
\* flight minutes; and a change of the query leaves the rows as they were.
C15_TotalsOverVisible ==
  []TotalsOverVisible /\ [][search' # search => rows' = rows]_vars

\* C15 on the sheets with at most one ferry row
C15_TotalsOverVisibleOneFerry ==
  [](FerryCount(rows) <= 1 => TotalsOverVisible) /\ [][search' # search => rows' = rows]_vars

\* C16: add ferry row on a sheet that holds a ferry row leaves the row
\* sequence as it is (number, order and every field of every row), so add
\* ferry row right after add ferry row changes nothing.
C16_AddFerryIdempotent ==
  [][AddFerryRow => ((HasFerry(rows) \/ did = "addFerryRow") => rows' = rows)]_vars

\* add ferry row has run on an open sheet whose ferry row is not the first
\* row: nothing was put in front
C16_Witness ==
  /\ did = "addFerryRow" /\ ~isClosed
  /\ Len(rows) = 2 /\ IsLoad(rows[1]) /\ IsFerry(rows[2])

(***************************************************************************)
(* Properties of the pure functions.                                       *)
(***************************************************************************)
\* a label that reads as a number: an optionally signed run of digits
NumericLabel(l) ==
  LET u == Trim(l)
  IN AllDigits(u) \/ (u # <<>> /\ Head(u) = "-" /\ AllDigits(Tail(u)))
LabelValue(l) ==
  LET u == Trim(l)
  IN IF Head(u) = "-" THEN 0 - DigitsToNat(Tail(u)) ELSE DigitsToNat(u)

\* C7: nextLoadNumber is 1 plus the greatest numeric label among the rows
\* without the ferry identifier, and 1 when there is none; ferry rows and
\* non-numeric labels, the empty label included, have no influence.
C7_NextLoadNumber ==
  (mode = "load" /\ phase = "done") =>
    LET vals == {LabelValue(inAll[i].Load) :
                   i \in {j \in 1..Len(inAll) :
                            inAll[j].id # FERRY_ID /\ NumericLabel(inAll[j].Load)}}
    IN outNext = IF vals = {} THEN 1
                 ELSE 1 + (CHOOSE m \in vals : \A v \in vals : v <= m)

\* a row whose ten fields other than Load are empty
AllFieldsBlank(r) ==
  \A c \in ColSet \ {"Load"} : CellText(r, c) = EmptyText

\* a label that is one of the numbers 1..19
Numbered1To19(l) == NumericLabel(l) /\ LabelValue(l) >= 1 /\ LabelValue(l) <= 19

\* the persisted rows, taken as none when what is stored is not a list
PersistedRows ==
  IF inStored.kind = "json" /\ inStored.value.isArray THEN inStored.value.items ELSE <<>>

TimesOfDay(t) ==
  {hm \in (0..23) \X (0..59) :
     t = LongClock(hm[1], hm[2]) \/ (hm[1] < 10 /\ t = ShortClock(hm[1], hm[2]))}
IsTimeOfDay(t) == TimesOfDay(t) # {}
MinuteOfDay(t) == LET hm == CHOOSE x \in TimesOfDay(t) : TRUE IN 60 * hm[1] + hm[2]
Midnight == {LongClock(0, 0), ShortClock(0, 0)}
ElapsedMinutes(s, e) == IF e >= s THEN e - s ELSE e - s + 1440
ElapsedAsClaimed ==
  LET mins == ElapsedMinutes(MinuteOfDay(inTo), MinuteOfDay(inLd))
      span == LongClock(mins \div 60, mins % 60)
  IN outBlock = span /\ outDuty = span

\* C8 as stated: for all pairs of valid HH:MM texts, calcBlock and calcDuty
\* give the HH:MM of end - start, plus 1440 when end < start.
C8_ElapsedAllValid ==
  (mode = "time" /\ phase = "done" /\ IsTimeOfDay(inTo) /\ IsTimeOfDay(inLd))
    => ElapsedAsClaimed

\* C8 as amended: the same for all pairs of valid HH:MM texts neither of
\* which is midnight (00:00 or 0:00).
C8_ElapsedNonMidnight ==
  (/\ mode = "time" /\ phase = "done"
   /\ IsTimeOfDay(inTo) /\ IsTimeOfDay(inLd)
   /\ inTo \notin Midnight /\ inLd \notin Midnight)
    => ElapsedAsClaimed

\* the midnight rollover of the self-test: 23:30 to 00:10 is 00:40
C8_Witness ==
  /\ mode = "time" /\ phase = "done"
  /\ inTo = T2330 /\ inLd = T0010
  /\ outBlock = <<"0", "0", ":", "4", "0">> /\ outDuty = <<"0", "0", ":", "4", "0">>

\* the strict H:MM / HH:MM pattern
HasClockPattern(t) ==
  \E k \in {1, 2} :
    /\ Len(t) = k + 3
    /\ AllDigits(SubSeq(t, 1, k))
    /\ t[k + 1] = ":"
    /\ AllDigits(SubSeq(t, k + 2, k + 3))
Unparseable(t) == t = EmptyText \/ ~HasClockPattern(t)

\* C9: hmToMinutes is 0 for every text that is empty or not of the pattern,
\* and calcBlock and calcDuty are empty when either argument is such a text.
C9_MalformedIsAbsent ==
  (mode = "time" /\ phase = "done") =>
    /\ Unparseable(inTo) => outTo = 0
    /\ Unparseable(inLd) => outLd = 0
    /\ (Unparseable(inTo) \/ Unparseable(inLd)) => (outBlock = EmptyText /\ outDuty = EmptyText)

\* an hour of three digits against a valid time
C9_Witness ==
  /\ mode = "time" /\ phase = "done"
  /\ inTo = <<"1", "2", "3", ":", "0", "0">> /\ inLd = T1010
  /\ outTo = 0 /\ outBlock = EmptyText

====
